---- MODULE Spec2Model ----
(***************************************************************************)
(* Model of src/app.py: the /api/search handler (search_databases) and its *)
(* three producers, search_prosite_via_uniprot, search_pfam_via_interpro   *)
(* and search_ncbi_cdd, with the remote services as the environment.       *)
(*                                                                         *)
(* Text is a tuple of one-character strings; a remote response is chosen   *)
(* by the environment at the step that receives it.                        *)
(*                                                                         *)
(* Spec is a request to /api/search, SpecRunning the same with a status    *)
(* endpoint that always answers RUNNING; SpecProsite and SpecParse are     *)
(* search_prosite_via_uniprot and parse_interpro_results called on their   *)
(* own with any argument.                                                  *)
(***************************************************************************)
EXTENDS Integers, Sequences, FiniteSets, TLC

VARIABLES request, sequence, pc, stage, attempt, results, response,
          job, submits, calls, rets,
          pattern_index, prosite_matches, interpro_data

vars == <<request, sequence, pc, stage, attempt, results, response,
          job, submits, calls, rets, pattern_index, prosite_matches, interpro_data>>

\* The locals of a producer called on its own: the position of the loop
\* over patterns and the list it fills in search_prosite_via_uniprot, and
\* the argument of parse_interpro_results.
locals == <<pattern_index, prosite_matches, interpro_data>>

(***************************************************************************)
(* Text helpers: str.strip, str.upper, re.match(r'^[ACDEFGHIKLMNPQRSTVWY]+$') *)
(***************************************************************************)
LowerCase ==
  <<"a","b","c","d","e","f","g","h","i","j","k","l","m",
    "n","o","p","q","r","s","t","u","v","w","x","y","z">>

UpperCase ==
  <<"A","B","C","D","E","F","G","H","I","J","K","L","M",
    "N","O","P","Q","R","S","T","U","V","W","X","Y","Z">>

Whitespace == {" ", "\n", "\t"}

UpperChar(c) ==
  IF \E i \in 1..Len(LowerCase) : LowerCase[i] = c
    THEN UpperCase[CHOOSE i \in 1..Len(LowerCase) : LowerCase[i] = c]
    ELSE c

Upper(s) == [i \in 1..Len(s) |-> UpperChar(s[i])]

Strip(s) ==
  LET blank(i) == s[i] \in Whitespace
      keep == {i \in 1..Len(s) : ~blank(i)}
  IN IF keep = {} THEN <<>>
     ELSE LET lo == CHOOSE i \in keep : \A j \in 1..(i - 1) : blank(j)
              hi == CHOOSE i \in keep : \A j \in (i + 1)..Len(s) : blank(j)
          IN SubSeq(s, lo, hi)

AminoAcids ==
  {"A","C","D","E","F","G","H","I","K","L","M","N","P","Q","R","S","T","V","W","Y"}

MinSeqLen == 10

MaxSeqLen == 2000

\* re.match(r'^[ACDEFGHIKLMNPQRSTVWY]+$', sequence): "$" also matches just
\* before one trailing newline.
IsAminoAcidSequence(s) ==
  LET n == IF Len(s) > 1 /\ s[Len(s)] = "\n" THEN Len(s) - 1 ELSE Len(s)
  IN n >= 1 /\ \A i \in 1..n : s[i] \in AminoAcids

Rep(s, n) == [i \in 1..(n * Len(s)) |-> s[((i - 1) % Len(s)) + 1]]

(***************************************************************************)
(* The PROSITE pattern table and re.finditer over it.                      *)
(* A regex is a tuple of tokens; a token is a character class (a set,      *)
(* possibly negated) with a greedy repeat range.                           *)
(***************************************************************************)
In(set) == [neg |-> FALSE, set |-> set, min |-> 1, max |-> 1]

NotIn(set) == [neg |-> TRUE, set |-> set, min |-> 1, max |-> 1]

Dot(lo, hi) == [neg |-> TRUE, set |-> {"\n"}, min |-> lo, max |-> hi]

patterns ==
  << [id |-> "PS00008",
      regex |-> << In({"D"}), Dot(1, 1), In({"D","N","S"}),
                   NotIn({"I","L","V","F","Y","W"}),
                   In({"D","E","N","S","T","G"}),
                   In({"D","N","Q","G","H","R","K"}),
                   NotIn({"G","P"}), In({"L","I","V","M","C"}),
                   In({"D","E","N","Q","S","T","A","G","C"}),
                   Dot(2, 2), In({"D","E"}),
                   In({"L","I","V","M","F","Y","W"}) >>],
     [id |-> "PS00142",
      regex |-> << In({"C"}), Dot(2, 4), In({"C"}), Dot(3, 3),
                   In({"L","I","V","M","F","Y","W","C"}), Dot(8, 8),
                   In({"H"}), Dot(3, 5), In({"H"}) >>],
     [id |-> "PS00017",
      regex |-> << In({"A","G"}), Dot(4, 4), In({"G"}), In({"K"}),
                   In({"S","T"}) >>],
     [id |-> "PS00006",
      regex |-> << In({"S","T"}), Dot(2, 2), In({"D","E"}) >>],
     [id |-> "PS00005",
      regex |-> << In({"S","T"}), Dot(1, 1), In({"R","K"}) >>] >>

\* re.IGNORECASE: a character matches a class when either case of it does.
TokenMatches(tok, c) ==
  LET hit == c \in tok.set \/ UpperChar(c) \in tok.set
  IN IF tok.neg THEN ~hit ELSE hit

MaxOf(S) == CHOOSE x \in S : \A y \in S : y <= x

\* The offset just after the match of regex[i..] that starts at offset p
\* (0-based), or -1: greedy repeats, backtracking to fewer repetitions.
RECURSIVE MatchEnd(_, _, _, _)
MatchEnd(regex, i, s, p) ==
  IF i > Len(regex) THEN p
  ELSE LET tok == regex[i]
           fits(n) == /\ p + n <= Len(s)
                      /\ \A k \in 1..n : TokenMatches(tok, s[p + k])
                      /\ MatchEnd(regex, i + 1, s, p + n) # -1
           ns == {n \in tok.min..tok.max : fits(n)}
       IN IF ns = {} THEN -1 ELSE MatchEnd(regex, i + 1, s, p + MaxOf(ns))

\* Variant of Finditer: the scan resumes one character after the start of
\* a match, so overlapping occurrences are found too.
RECURSIVE Finditer_overlapping(_, _, _)
Finditer_overlapping(regex, s, p) ==
  LET starts == {q \in p..Len(s) : MatchEnd(regex, 1, s, q) # -1}
  IN IF starts = {} THEN <<>>
     ELSE LET q == CHOOSE x \in starts : \A y \in starts : x <= y
              e == MatchEnd(regex, 1, s, q)
          IN <<[start |-> q, end |-> e]>>
             \o (IF q < Len(s) THEN Finditer_overlapping(regex, s, q + 1) ELSE <<>>)

\* re.finditer: leftmost match at or after offset p, then on from its end.
RECURSIVE Finditer(_, _, _)
Finditer(regex, s, p) ==
  LET starts == {q \in p..Len(s) : MatchEnd(regex, 1, s, q) # -1}
  IN IF starts = {} THEN <<>>
     ELSE LET q == CHOOSE x \in starts : \A y \in starts : x <= y
              e == MatchEnd(regex, 1, s, q)
          IN <<[start |-> q, end |-> e]>>
             \o (IF e > q THEN Finditer(regex, s, e)
                 ELSE IF q < Len(s) THEN Finditer(regex, s, q + 1) ELSE <<>>)

\* Variant of Head5: the list is returned whole.
Head5_missing(list) == list

\* Variant of Head5: the last five, list[-5:].
Head5_last(list) ==
  SubSeq(list, IF Len(list) < 5 THEN 1 ELSE Len(list) - 4, Len(list))

\* list[:5]
Head5(list) == SubSeq(list, 1, IF Len(list) < 5 THEN Len(list) ELSE 5)

\* Variant of PrositeHits: the span is reported 0-based, match.start() and
\* match.end() - 1.
PrositeHits_zero_based(pattern_info, s) ==
  LET matches == Finditer(pattern_info.regex, s, 0)
  IN [k \in 1..Len(matches) |->
        [id |-> pattern_info.id,
         positions |-> <<[start |-> matches[k].start,
                          end |-> matches[k].end - 1]>>]]

\* One dict is appended for each match of the pattern, with the 1-based
\* inclusive span match.start() + 1, match.end().
PrositeHits(pattern_info, s) ==
  LET matches == Finditer(pattern_info.regex, s, 0)
  IN [k \in 1..Len(matches) |->
        [id |-> pattern_info.id,
         positions |-> <<[start |-> matches[k].start + 1,
                          end |-> matches[k].end]>>]]

RECURSIVE PrositeAll(_, _)
PrositeAll(i, s) ==
  IF i > Len(patterns) THEN <<>>
  ELSE PrositeHits(patterns[i], s) \o PrositeAll(i + 1, s)

search_prosite_via_uniprot(s) == Head5(PrositeAll(1, s))

(***************************************************************************)
(* parse_interpro_results: the decoded JSON payload is a tree of tagged    *)
(* values; tag "dict" is a JSON object, any other tag a value on which     *)
(* .get raises.  A JSON number is JInt(n), a missing start/end is JNull.   *)
(***************************************************************************)
JInt(n) == [t |-> "int", v |-> n]

JNull == [t |-> "null", v |-> 0]

\* The elements the two nested loops visit, in payload order (results,
\* then the matches of a result); a result that is no object raises when
\* its matches are asked for, which Malformed stands for in the list.
Malformed == [tag |-> "other"]

RECURSIVE FlatMatches(_, _)
FlatMatches(rs, i) ==
  IF i > Len(rs) THEN <<>>
  ELSE IF rs[i].tag # "dict" THEN <<Malformed>>
  ELSE rs[i].matches \o FlatMatches(rs, i + 1)

\* The body of the inner loop raises on a match that is no object and on
\* a PFAM match with a location that is no object.
MatchRaises(match) ==
  \/ match.tag # "dict"
  \/ /\ match.library = "PFAM"
     /\ \E k \in 1..Len(match.locations) : match.locations[k].tag # "dict"

\* Variant of PfamMatchOf: only the first location is carried.
PfamMatchOf_first_location(match) ==
  [id |-> match.accession,
   positions |-> [k \in 1..(IF match.locations = <<>> THEN 0 ELSE 1) |->
                    [start |-> match.locations[k].start,
                     end |-> match.locations[k].end]]]

\* The dict appended for a PFAM match: the accession of its signature and
\* the start and end of each of its locations.
PfamMatchOf(match) ==
  [id |-> match.accession,
   positions |-> [k \in 1..Len(match.locations) |->
                    [start |-> match.locations[k].start,
                     end |-> match.locations[k].end]]]

RECURSIVE CollectPfam(_, _)
CollectPfam(items, i) ==
  IF i > Len(items) THEN <<>>
  ELSE IF MatchRaises(items[i]) THEN <<>>
  ELSE IF items[i].library = "PFAM"
    THEN <<PfamMatchOf(items[i])>> \o CollectPfam(items, i + 1)
  ELSE CollectPfam(items, i + 1)

\* Variant of parse_interpro_results: when an element raises, the matches
\* collected so far are dropped and the empty list is returned.
parse_interpro_results_all_or_nothing(data) ==
  IF data.tag # "dict" THEN <<>>
  ELSE LET items == FlatMatches(data.results, 1)
       IN IF \E i \in 1..Len(items) : MatchRaises(items[i]) THEN <<>>
          ELSE Head5(CollectPfam(items, 1))

\* The loops run inside try/except: what was appended before the element
\* that raised is kept, and the list is cut to its first five.
parse_interpro_results(data) ==
  IF data.tag # "dict" THEN <<>>
  ELSE Head5(CollectPfam(FlatMatches(data.results, 1), 1))

(***************************************************************************)
(* parse_cdd_html_results: the result page is abstracted to what the three *)
(* regular expressions find in it: the cd#### hits in page order, each     *)
(* with the span scraped after its id (or none), then the pfam#### hits.   *)
(***************************************************************************)
DefaultStart == 1

DefaultEnd == 50

CddMatchOf(hit) ==
  [id |-> hit.id,
   positions |-> <<IF hit.pos.found
                     THEN [start |-> hit.pos.start, end |-> hit.pos.end]
                     ELSE [start |-> DefaultStart, end |-> DefaultEnd]>>]

CddPfamMatchOf(hit) ==
  [id |-> hit.id,
   positions |-> <<[start |-> DefaultStart, end |-> DefaultEnd]>>]

parse_cdd_html_results(page) ==
  Head5([k \in 1..Len(page.cd) |-> CddMatchOf(page.cd[k])]
        \o [k \in 1..Len(page.pfam) |-> CddPfamMatchOf(page.pfam[k])])

(***************************************************************************)
(* The environment: request bodies and remote responses.                   *)
(***************************************************************************)
MaxRequested == 3

MaxPayloadMatches == 6

MaxPageHits == 3

Names == {"prosite", "pfam", "ncbi", "smart"}

\* The lists of at most MaxRequested different names, in every order.
DatabaseLists ==
  UNION {{d \in [1..n -> Names] : \A i, j \in 1..n : i # j => d[i] # d[j]}
         : n \in 0..MaxRequested}

RawSequences ==
  { <<>>,
    <<" ", "\n">>,
    <<"A","A","S","T","V","R","K","A","A">>,
    <<"A","C","D","E","F","B","H","I","K","L","M">>,
    Rep(<<"A">>, MaxSeqLen + 1),
    <<" ">> \o Rep(<<"s","a","k">>, 6) \o <<"\n">>,
    <<"G","A","S","A","A","G","K","S","D","E","R","W">> }

Requests ==
  {[json |-> "null", sequence |-> <<>>, isList |-> FALSE, databases |-> <<>>]}
  \cup {[json |-> "dict", sequence |-> s, isList |-> FALSE, databases |-> <<>>]
        : s \in RawSequences}
  \cup {[json |-> "dict", sequence |-> s, isList |-> TRUE, databases |-> d]
        : s \in RawSequences, d \in DatabaseLists}

Fault == [kind |-> "fault", status |-> 0, text |-> <<>>]

Http(status, text) == [kind |-> "http", status |-> status, text |-> text]

SubmitResponses == {Fault, Http(200, <<"iprscan5-R1">>), Http(400, <<>>)}

StatusResponses ==
  {Fault, Http(404, <<"NOT_FOUND">>)}
  \cup {Http(200, t) : t \in { <<"RUNNING">>, <<"QUEUED">>, <<"NOT_FOUND">>,
                               <<"finished">>, <<"FINISHED">>,
                               <<"FINISHED", "\n">>, <<"FAILURE">>,
                               <<"FAILED">>, <<"ERROR">> }}

Loc(a, b) == [tag |-> "dict", start |-> a, end |-> b]

GoodLocations == <<Loc(JInt(2), JInt(9))>>

OddLocations ==
  { <<Loc(JInt(1), JInt(4)), Loc(JInt(6), JInt(10))>>,
    <<Loc(JInt(0), JInt(2500))>>,
    <<Loc(JNull, JInt(5))>>,
    <<>> }

PayloadMatch(lib, acc, locs) ==
  [tag |-> "dict", library |-> lib, accession |-> acc, locations |-> locs]

\* One result holding n matches of one library, numbered in payload order.
UniformPayload(lib, locs, n) ==
  [tag |-> "dict",
   results |-> <<[tag |-> "dict",
                  matches |-> [i \in 1..n |-> PayloadMatch(lib, i, locs)]]>>]

BrokenPayloads ==
  { [tag |-> "list", results |-> <<>>],
    [tag |-> "dict",
     results |-> << [tag |-> "dict",
                     matches |-> << PayloadMatch("PFAM", 1, <<Loc(JInt(2), JInt(9))>>),
                                    Malformed,
                                    PayloadMatch("PFAM", 3, <<Loc(JInt(2), JInt(9))>>) >>] >>],
    [tag |-> "dict",
     results |-> << [tag |-> "dict",
                     matches |-> << PayloadMatch("PANTHER", 1, <<>>),
                                    PayloadMatch("PFAM", 2, <<Loc(JInt(3), JInt(8))>>) >>],
                    Malformed,
                    [tag |-> "dict",
                     matches |-> << PayloadMatch("PFAM", 3, <<Loc(JInt(3), JInt(8))>>) >>] >>],
    [tag |-> "dict",
     results |-> << [tag |-> "dict",
                     matches |-> << PayloadMatch("PFAM", 1, <<Loc(JInt(2), JInt(9)),
                                                              Malformed>>) >>] >>] }

RemotePayloads ==
  {UniformPayload("PFAM", GoodLocations, n)
     : n \in {0, 1, MaxPayloadMatches - 1, MaxPayloadMatches}}
  \cup {UniformPayload("PFAM", l, 1) : l \in OddLocations}
  \cup {UniformPayload("PANTHER", GoodLocations, 1)}
  \cup BrokenPayloads

EmptyPayload == [tag |-> "none", results |-> <<>>]

\* A result response: a fault, an HTTP status, and for a 200 either a body
\* that json() decodes to a payload or one on which json() raises exc.
ResultResponse(kind, status, exc, payload) ==
  [kind |-> kind, status |-> status, exc |-> exc, payload |-> payload]

ResultResponses ==
  { ResultResponse("fault", 0, "", EmptyPayload),
    ResultResponse("http", 500, "", EmptyPayload),
    ResultResponse("undecodable", 200, "RequestException", EmptyPayload),
    ResultResponse("undecodable", 200, "ValueError", EmptyPayload) }
  \cup {ResultResponse("http", 200, "", p) : p \in RemotePayloads}

ScrapedSpans ==
  { [found |-> TRUE, start |-> 3, end |-> 8],
    [found |-> TRUE, start |-> 8, end |-> 3],
    [found |-> TRUE, start |-> 0, end |-> 4],
    [found |-> TRUE, start |-> 120, end |-> 300] }

Page(ready, cd, pfam) == [ready |-> ready, cd |-> cd, pfam |-> pfam]

NoSpan == [found |-> FALSE, start |-> 0, end |-> 0]

\* Pages with n cd hits and m pfam hits, and pages with one cd hit whose
\* span was scraped.
Pages ==
  {Page(FALSE, <<>>, <<>>)}
  \cup {Page(TRUE, [i \in 1..n |-> [id |-> i, pos |-> NoSpan]],
                   [i \in 1..m |-> [id |-> n + i]])
        : n \in 0..MaxPageHits, m \in {0, MaxPageHits}}
  \cup {Page(TRUE, <<[id |-> 1, pos |-> sp]>>, <<>>) : sp \in ScrapedSpans}

CddResponse(kind, status, cdsid, page) ==
  [kind |-> kind, status |-> status, cdsid |-> cdsid, page |-> page]

CddSubmitResponses ==
  { CddResponse("fault", 0, FALSE, Page(FALSE, <<>>, <<>>)),
    CddResponse("http", 500, FALSE, Page(FALSE, <<>>, <<>>)),
    CddResponse("http", 200, FALSE, Page(FALSE, <<>>, <<>>)),
    CddResponse("http", 200, TRUE, Page(FALSE, <<>>, <<>>)) }

CddPollResponses ==
  { CddResponse("fault", 0, FALSE, Page(FALSE, <<>>, <<>>)),
    CddResponse("http", 503, FALSE, Page(TRUE, <<>>, <<>>)) }
  \cup {CddResponse("http", 200, FALSE, p) : p \in Pages}

(***************************************************************************)
(* Control flow of the producers.  A step of a function body ends in an    *)
(* outcome: the function returns a list, an exception is raised, or        *)
(* control goes on to another place of the body.                           *)
(***************************************************************************)
Return(list, why) == [kind |-> "return", value |-> list, exc |-> "", why |-> why]

Raise(exc) == [kind |-> "raise", value |-> <<>>, exc |-> exc, why |-> ""]

Goto(label) == [kind |-> label, value |-> <<>>, exc |-> "", why |-> ""]

max_attempts == 36

cdd_max_attempts == 36

PollInterval == 5

\* Variant of for_attempt: the loop runs once more, range(max_attempts + 1).
for_attempt_one_more(a) ==
  IF a <= max_attempts THEN Goto("sleep") ELSE Return(<<>>, "timeout")

\* search_pfam_via_interpro: for attempt in range(max_attempts): the body
\* runs for attempt a, or the loop is exhausted and [] is returned after it.
for_attempt(a) ==
  IF a < max_attempts THEN Goto("sleep") ELSE Return(<<>>, "timeout")

\* search_ncbi_cdd: the same loop header.
cdd_for_attempt(a) ==
  IF a < cdd_max_attempts THEN Goto("sleep") ELSE Return(<<>>, "timeout")

\* Variant of pfam_poll_except: a failed request is repeated at once,
\* within the same attempt.
pfam_poll_except_retry(o) ==
  IF o.kind = "raise" /\ o.exc = "RequestException" THEN Goto("poll") ELSE o

\* Variant of pfam_poll_except: a failed request submits the job again.
pfam_poll_except_resubmit(o) ==
  IF o.kind = "raise" /\ o.exc = "RequestException" THEN Goto("submit") ELSE o

\* search_pfam_via_interpro: except requests.exceptions.RequestException
\* inside the loop: continue.
pfam_poll_except(o) ==
  IF o.kind = "raise" /\ o.exc = "RequestException" THEN Goto("continue") ELSE o

\* Variant of pfam_except: no handler around the body.
pfam_except_missing(o) == o

\* Variant of pfam_except: the handler catches RequestException only.
pfam_except_narrow(o) ==
  IF o.kind = "raise" /\ o.exc = "RequestException"
    THEN Return(<<>>, "except") ELSE o

\* search_pfam_via_interpro: except Exception around the body: return [].
pfam_except(o) ==
  IF o.kind = "raise" THEN Return(<<>>, "except") ELSE o

\* search_ncbi_cdd: except requests.exceptions.RequestException inside the
\* loop: continue.
cdd_poll_except(o) ==
  IF o.kind = "raise" /\ o.exc = "RequestException" THEN Goto("continue") ELSE o

\* search_ncbi_cdd: except Exception around the body: return [].
cdd_except(o) ==
  IF o.kind = "raise" THEN Return(<<>>, "except") ELSE o

\* Variant of pfam_submit: the status of the answer is not tested.
pfam_submit_unchecked(resp) ==
  pfam_except(
    IF resp.kind = "fault" THEN Raise("RequestException") ELSE Goto("loop"))

\* requests.post to the run endpoint and the test of its status.
pfam_submit(resp) ==
  pfam_except(
    IF resp.kind = "fault" THEN Raise("RequestException")
    ELSE IF resp.status = 200 THEN Goto("loop")
    ELSE Return(<<>>, "rejected"))

\* Variant of pfam_status: a token that is not FINISHED, and a status other
\* than 200, ends the loop as a failure.
pfam_status_unknown_fails(resp) ==
  pfam_except(pfam_poll_except(
    IF resp.kind = "fault" THEN Raise("RequestException")
    ELSE IF resp.status = 200
      THEN LET status == Strip(resp.text)
           IN IF status = <<"FINISHED">> THEN Goto("retrieve")
              ELSE IF status = <<"RUNNING">> THEN Goto("continue")
              ELSE Goto("break")
    ELSE Goto("break")))

\* requests.get of the status endpoint and the tests of its token.
pfam_status(resp) ==
  pfam_except(pfam_poll_except(
    IF resp.kind = "fault" THEN Raise("RequestException")
    ELSE IF resp.status = 200
      THEN LET status == Strip(resp.text)
           IN IF status = <<"FINISHED">> THEN Goto("retrieve")
              ELSE IF status \in {<<"FAILED">>, <<"ERROR">>} THEN Goto("break")
              ELSE Goto("continue")
    ELSE Goto("continue")))

\* requests.get of the result endpoint, json() and the parse; it runs
\* inside the same try as the status request.
pfam_result(resp) ==
  pfam_except(pfam_poll_except(
    IF resp.kind = "fault" THEN Raise("RequestException")
    ELSE IF resp.status = 200
      THEN IF resp.kind = "undecodable" THEN Raise(resp.exc)
           ELSE Return(parse_interpro_results(resp.payload), "parsed")
    ELSE Goto("break")))

\* Variant of cdd_submit: the loop is entered whether or not a CDSID was
\* found in the answer.
cdd_submit_without_cdsid(resp) ==
  cdd_except(
    IF resp.kind = "fault" THEN Raise("RequestException")
    ELSE IF resp.status = 200 THEN Goto("loop")
    ELSE Return(<<>>, "rejected"))

\* requests.post to CD-Search, the status test and the CDSID extraction.
cdd_submit(resp) ==
  cdd_except(
    IF resp.kind = "fault" THEN Raise("RequestException")
    ELSE IF resp.status = 200
      THEN IF resp.cdsid THEN Goto("loop") ELSE Return(<<>>, "rejected")
    ELSE Return(<<>>, "rejected"))

\* requests.get of the result page and the test that it is ready.
cdd_poll(resp) ==
  cdd_except(cdd_poll_except(
    IF resp.kind = "fault" THEN Raise("RequestException")
    ELSE IF resp.status = 200 /\ resp.page.ready
      THEN Return(parse_cdd_html_results(resp.page), "parsed")
    ELSE Goto("continue")))

\* Where an outcome leads at attempt a: break and the exhausted loop return
\* [], continue goes to the next attempt.
Resolve(src, o, a) ==
  LET header(n) == IF src = "pfam" THEN for_attempt(n) ELSE cdd_for_attempt(n)
  IN
  IF o.kind = "loop" THEN header(0)
  ELSE IF o.kind = "continue" THEN header(a + 1)
  ELSE IF o.kind = "break" THEN Return(<<>>, "break")
  ELSE o

NextAttempt(o, a) ==
  IF o.kind = "loop" THEN 0 ELSE IF o.kind = "continue" THEN a + 1 ELSE a

(***************************************************************************)
(* search_databases                                                        *)
(***************************************************************************)
\* Variant of Dispatch: the producers run in the order of the request.
Dispatch_request_order ==
  SelectSeq(request.databases, LAMBDA n : n \in {"prosite", "pfam", "ncbi"})

\* The order of the three "if name in databases" statements.
Dispatch == <<"prosite", "pfam", "ncbi">>

\* Variant of Put: an empty list is not stored.
Put_nonempty(d, key, value) ==
  IF value = <<>> THEN d
  ELSE IF \E i \in 1..Len(d) : d[i].key = key
    THEN [i \in 1..Len(d) |->
            IF d[i].key = key THEN [key |-> key, value |-> value] ELSE d[i]]
    ELSE Append(d, [key |-> key, value |-> value])

\* results[key] = value on a dict that keeps insertion order.
Put(d, key, value) ==
  IF \E i \in 1..Len(d) : d[i].key = key
    THEN [i \in 1..Len(d) |->
            IF d[i].key = key THEN [key |-> key, value |-> value] ELSE d[i]]
    ELSE Append(d, [key |-> key, value |-> value])

Keys(d) == {d[i].key : i \in 1..Len(d)}

Get(d, key) == d[CHOOSE i \in 1..Len(d) : d[i].key = key].value

Requested(name) == \E i \in 1..Len(request.databases) : request.databases[i] = name

\* What is recorded of the producer that is running: whether its submission
\* was answered 200 (with a CDSID, for ncbi), the state the service last
\* reported, the status requests made, the time slept, and whether the
\* result was requested and whether that request failed.
NoJob ==
  [source |-> "none", accepted |-> FALSE, state |-> "NONE", polls |-> 0,
   waited |-> 0, retrieved |-> FALSE, retrieveFailed |-> FALSE]

NoResponse == [status |-> 0, error |-> "", body |-> <<>>]

ErrorResponse(status, error) == [status |-> status, error |-> error, body |-> <<>>]

Init ==
  /\ request \in Requests
  /\ sequence = <<>>
  /\ pc = <<"api", "entry">>
  /\ stage = 0
  /\ attempt = 0
  /\ results = <<>>
  /\ response = NoResponse
  /\ job = NoJob
  /\ submits = [pfam |-> 0, ncbi |-> 0]
  /\ calls = <<>>
  /\ rets = <<>>
  /\ pattern_index = 0
  /\ prosite_matches = <<>>
  /\ interpro_data = EmptyPayload

\* Variant of SequenceError: the minimum length is not checked.
SequenceError_no_minimum(seq) ==
  IF seq = <<>> THEN "No sequence provided"
  ELSE IF ~IsAminoAcidSequence(seq) THEN "Invalid amino acid sequence"
  ELSE IF Len(seq) > MaxSeqLen THEN "Sequence too long"
  ELSE ""

\* The four checks of the sequence, in the order of the code: the error of
\* the first that fails, or "" when all pass.
SequenceError(seq) ==
  IF seq = <<>> THEN "No sequence provided"
  ELSE IF ~IsAminoAcidSequence(seq) THEN "Invalid amino acid sequence"
  ELSE IF Len(seq) < MinSeqLen THEN "Sequence too short"
  ELSE IF Len(seq) > MaxSeqLen THEN "Sequence too long"
  ELSE ""

\* get_json, strip().upper() and the four checks of the sequence.
Validate ==
  /\ pc = <<"api", "entry">>
  /\ UNCHANGED <<locals, request, attempt, results, job, submits, calls, rets>>
  /\ IF request.json # "dict"
       THEN /\ pc' = <<"api", "except">>
            /\ UNCHANGED <<sequence, stage, response>>
       ELSE LET seq == Upper(Strip(request.sequence))
                error == SequenceError(seq)
            IN /\ sequence' = seq
               /\ IF error # ""
                    THEN /\ response' = ErrorResponse(400, error)
                         /\ pc' = <<"api", "done">>
                         /\ UNCHANGED stage
                    ELSE /\ pc' = <<"api", "dispatch">>
                         /\ stage' = 1
                         /\ UNCHANGED response

\* "name in databases" raises when databases is no container.
DispatchRaises ==
  /\ pc = <<"api", "dispatch">>
  /\ stage <= Len(Dispatch)
  /\ ~request.isList
  /\ pc' = <<"api", "except">>
  /\ UNCHANGED <<locals, request, sequence, stage, attempt, results, response, job,
                 submits, calls, rets>>

Skip ==
  /\ pc = <<"api", "dispatch">>
  /\ stage <= Len(Dispatch)
  /\ request.isList
  /\ ~Requested(Dispatch[stage])
  /\ stage' = stage + 1
  /\ UNCHANGED <<locals, request, sequence, pc, attempt, results, response, job,
                 submits, calls, rets>>

\* results['prosite'] = search_prosite_via_uniprot(sequence)
CallProsite ==
  /\ pc = <<"api", "dispatch">>
  /\ stage <= Len(Dispatch)
  /\ request.isList
  /\ Dispatch[stage] = "prosite"
  /\ Requested("prosite")
  /\ LET list == search_prosite_via_uniprot(sequence)
     IN /\ results' = Put(results, "prosite", list)
        /\ rets' = Append(rets, [src |-> "prosite", value |-> list])
  /\ calls' = Append(calls, "prosite")
  /\ stage' = stage + 1
  /\ UNCHANGED <<locals, request, sequence, pc, attempt, response, job, submits>>

\* Entry into search_pfam_via_interpro or search_ncbi_cdd.
CallJob(src) ==
  /\ pc = <<"api", "dispatch">>
  /\ stage <= Len(Dispatch)
  /\ request.isList
  /\ Dispatch[stage] = src
  /\ Requested(src)
  /\ calls' = Append(calls, src)
  /\ job' = [NoJob EXCEPT !.source = src]
  /\ attempt' = 0
  /\ pc' = <<src, "submit">>
  /\ UNCHANGED <<locals, request, sequence, stage, results, response, submits, rets>>

\* The outcome o of a step of producer src takes effect; j is the job as
\* the step leaves it.  A return leaves the list with the caller.
Land(src, o, j) ==
  LET r == Resolve(src, o, attempt)
  IN /\ attempt' = IF r.kind = "return" THEN 0 ELSE NextAttempt(o, attempt)
     /\ job' = IF r.kind = "return" /\ r.why = "timeout"
                    /\ j.state \in {"SUBMITTED", "RUNNING"}
                 THEN [j EXCEPT !.state = "TIMED_OUT"]
                 ELSE j
     /\ rets' = IF r.kind = "return"
                  THEN Append(rets, [src |-> src, value |-> r.value])
                  ELSE rets
     /\ pc' = IF r.kind = "raise" THEN <<"api", "except">> ELSE <<src, r.kind>>
     /\ UNCHANGED <<results, stage>>

\* results[src] = the list the producer returned; its frame is gone.
Store(src) ==
  /\ pc = <<src, "return">>
  /\ results' = Put(results, src, rets[Len(rets)].value)
  /\ stage' = stage + 1
  /\ job' = NoJob
  /\ pc' = <<"api", "dispatch">>
  /\ UNCHANGED <<locals, request, sequence, attempt, response, submits, calls, rets>>

PfamSubmit ==
  /\ pc = <<"pfam", "submit">>
  /\ \E resp \in SubmitResponses :
       LET o == pfam_submit(resp)
       IN Land("pfam", o,
               [job EXCEPT !.accepted = resp.kind = "http" /\ resp.status = 200,
                           !.state = IF o.kind = "loop" THEN "SUBMITTED" ELSE @])
  /\ submits' = [submits EXCEPT !.pfam = @ + 1]
  /\ UNCHANGED <<locals, request, sequence, response, calls>>

\* time.sleep(5)
Sleep(src) ==
  /\ pc = <<src, "sleep">>
  /\ job' = [job EXCEPT !.waited = @ + PollInterval]
  /\ pc' = <<src, "poll">>
  /\ UNCHANGED <<locals, request, sequence, stage, attempt, results, response,
                 submits, calls, rets>>

PfamPollOn(responses) ==
  /\ pc = <<"pfam", "poll">>
  /\ \E resp \in responses :
       LET o == pfam_status(resp)
           reported ==
             IF resp.kind = "http" /\ resp.status = 200
               THEN IF Strip(resp.text) = <<"FINISHED">> THEN "FINISHED"
                    ELSE IF Strip(resp.text) \in {<<"FAILED">>, <<"ERROR">>}
                      THEN "FAILED"
                    ELSE "RUNNING"
               ELSE job.state
       IN Land("pfam", o, [job EXCEPT !.polls = @ + 1, !.state = reported])
  /\ UNCHANGED <<locals, request, sequence, response, submits, calls>>

PfamPoll == PfamPollOn(StatusResponses)

PfamRetrieve ==
  /\ pc = <<"pfam", "retrieve">>
  /\ \E resp \in ResultResponses :
       Land("pfam", pfam_result(resp),
            [job EXCEPT !.retrieved = TRUE,
                        !.retrieveFailed =
                           @ \/ ~(resp.kind = "http" /\ resp.status = 200)])
  /\ UNCHANGED <<locals, request, sequence, response, submits, calls>>

NcbiSubmit ==
  /\ pc = <<"ncbi", "submit">>
  /\ \E resp \in CddSubmitResponses :
       LET o == cdd_submit(resp)
       IN Land("ncbi", o,
               [job EXCEPT !.accepted = /\ resp.kind = "http"
                                        /\ resp.status = 200
                                        /\ resp.cdsid,
                           !.state = IF o.kind = "loop" THEN "SUBMITTED" ELSE @])
  /\ submits' = [submits EXCEPT !.ncbi = @ + 1]
  /\ UNCHANGED <<locals, request, sequence, response, calls>>

NcbiPoll ==
  /\ pc = <<"ncbi", "poll">>
  /\ \E resp \in CddPollResponses :
       LET ready == resp.kind = "http" /\ resp.status = 200 /\ resp.page.ready
       IN Land("ncbi", cdd_poll(resp),
               [job EXCEPT !.polls = @ + 1,
                           !.state = IF ready THEN "FINISHED"
                                     ELSE IF resp.kind = "http" /\ resp.status = 200
                                       THEN "RUNNING" ELSE @,
                           !.retrieved = @ \/ ready])
  /\ UNCHANGED <<locals, request, sequence, response, submits, calls>>

\* return jsonify(results)
Respond ==
  /\ pc = <<"api", "dispatch">>
  /\ stage > Len(Dispatch)
  /\ response' = [status |-> 200, error |-> "", body |-> results]
  /\ pc' = <<"api", "done">>
  /\ UNCHANGED <<locals, request, sequence, stage, attempt, results, job, submits,
                 calls, rets>>

\* except Exception in search_databases: the 500 response.
ApiExcept ==
  /\ pc = <<"api", "except">>
  /\ response' = ErrorResponse(500, "Internal server error")
  /\ pc' = <<"api", "done">>
  /\ UNCHANGED <<locals, request, sequence, stage, attempt, results, job, submits,
                 calls, rets>>

Next ==
  \/ Validate
  \/ DispatchRaises
  \/ Skip
  \/ CallProsite
  \/ CallJob("pfam")
  \/ PfamSubmit
  \/ Sleep("pfam")
  \/ PfamPoll
  \/ PfamRetrieve
  \/ Store("pfam")
  \/ CallJob("ncbi")
  \/ NcbiSubmit
  \/ Sleep("ncbi")
  \/ NcbiPoll
  \/ Store("ncbi")
  \/ Respond
  \/ ApiExcept

Spec == Init /\ [][Next]_vars

(***************************************************************************)
(* The status endpoint that always answers 200 RUNNING: the same program   *)
(* with that one response at every status poll.                            *)
(***************************************************************************)
AlwaysRunning == {Http(200, <<"RUNNING">>)}

NextRunning ==
  \/ Validate
  \/ DispatchRaises
  \/ Skip
  \/ CallProsite
  \/ CallJob("pfam")
  \/ PfamSubmit
  \/ Sleep("pfam")
  \/ PfamPollOn(AlwaysRunning)
  \/ Store("pfam")
  \/ CallJob("ncbi")
  \/ NcbiSubmit
  \/ Sleep("ncbi")
  \/ NcbiPoll
  \/ Store("ncbi")
  \/ Respond
  \/ ApiExcept

SpecRunning == Init /\ [][NextRunning]_vars

(***************************************************************************)
(* The status endpoint that never answers 200 with FINISHED, FAILED or     *)
(* ERROR: the same program with, at every status poll, one of the other    *)
(* answers, a 200 with another token or another HTTP status.               *)
(***************************************************************************)
Unrecognised ==
  {Http(404, <<"NOT_FOUND">>), Http(200, <<"NOT_FOUND">>),
   Http(200, <<"QUEUED">>), Http(200, <<"RUNNING">>),
   Http(200, <<"finished">>), Http(200, <<"FAILURE">>)}

NextUnrecognised ==
  \/ Validate
  \/ DispatchRaises
  \/ Skip
  \/ CallProsite
  \/ CallJob("pfam")
  \/ PfamSubmit
  \/ Sleep("pfam")
  \/ PfamPollOn(Unrecognised)
  \/ Store("pfam")
  \/ CallJob("ncbi")
  \/ NcbiSubmit
  \/ Sleep("ncbi")
  \/ NcbiPoll
  \/ Store("ncbi")
  \/ Respond
  \/ ApiExcept

SpecUnrecognised == Init /\ [][NextUnrecognised]_vars

(***************************************************************************)
(* search_prosite_via_uniprot called on its own with any text: one step    *)
(* for each pattern of the loop over the table, then the return.           *)
(***************************************************************************)
MaxScanLen == 5

ScanAlphabet == {"S", "R", "D", "A"}

\* Every text over ScanAlphabet of at most MaxScanLen characters, and texts
\* that meet the longer patterns or hold more than five hits.
ScanSequences ==
  UNION {[1..n -> ScanAlphabet] : n \in 0..MaxScanLen}
  \cup { <<"A","A","S","T","V","R","K","A","A">>,
         <<"a","a","s","t","v","r","k","a","a">>,
         <<"G","A","S","A","A","G","K","S","D","E","R","W">>,
         <<"D","K","D","G","D","G","T","I","T","T","K","E","L">>,
         <<"C","A","A","A","A","C","A","A","A","L","A","A","A","A","A","A",
           "A","A","H","A","A","A","A","A","H","H">>,
         Rep(<<"S","A","K">>, 6),
         Rep(<<"S","R","A","D">>, 5) \o <<"S","A","K">>,
         Rep(<<"T","K","D","E">>, 3),
         <<"S","S","R","R","D","S","A","R">>,
         <<"S","A","R","S","A","R">>,
         <<"S","S","R","R","S","A","R">>,
         <<"S","\n","R","S","A","\n","D">> }

NoRequest == [json |-> "none", sequence |-> <<>>, isList |-> FALSE, databases |-> <<>>]

InitProsite ==
  /\ request = NoRequest
  /\ sequence \in ScanSequences
  /\ pc = <<"prosite", "for">>
  /\ stage = 0
  /\ attempt = 0
  /\ results = <<>>
  /\ response = NoResponse
  /\ job = NoJob
  /\ submits = [pfam |-> 0, ncbi |-> 0]
  /\ calls = <<"prosite">>
  /\ rets = <<>>
  /\ pattern_index = 0
  /\ prosite_matches = <<>>
  /\ interpro_data = EmptyPayload

\* One pass of "for pattern_info in patterns": every match of the pattern
\* is appended to prosite_matches.
ForPattern ==
  /\ pc = <<"prosite", "for">>
  /\ pattern_index < Len(patterns)
  /\ prosite_matches' =
       prosite_matches \o PrositeHits(patterns[pattern_index + 1], sequence)
  /\ pattern_index' = pattern_index + 1
  /\ UNCHANGED <<interpro_data, request, sequence, pc, stage, attempt, results,
                 response, job, submits, calls, rets>>

\* return prosite_matches[:5]
PrositeReturn ==
  /\ pc = <<"prosite", "for">>
  /\ pattern_index = Len(patterns)
  /\ rets' = Append(rets, [src |-> "prosite", value |-> Head5(prosite_matches)])
  /\ pc' = <<"prosite", "return">>
  /\ UNCHANGED <<locals, request, sequence, stage, attempt, results,
                 response, job, submits, calls>>

NextProsite ==
  \/ ForPattern
  \/ PrositeReturn

SpecProsite == InitProsite /\ [][NextProsite]_vars

(***************************************************************************)
(* parse_interpro_results called on its own with a decoded payload.        *)
(***************************************************************************)
MaxParseMatches == 2

MatchKinds == {"PFAM", "PFAM2", "PFAM0", "Pfam", "PANTHER", "badloc", "other"}

\* A match of the payload: a PFAM match with one, two or no locations, a
\* match of a library spelt Pfam or of PANTHER, a PFAM match with a
\* location that is no object, and an element that is no object.
MatchOfKind(kind, acc) ==
  IF kind = "PFAM" THEN PayloadMatch("PFAM", acc, <<Loc(JInt(acc), JInt(acc + 7))>>)
  ELSE IF kind = "PFAM2"
    THEN PayloadMatch("PFAM", acc, <<Loc(JInt(1), JInt(4)), Loc(JNull, JInt(acc))>>)
  ELSE IF kind = "PFAM0" THEN PayloadMatch("PFAM", acc, <<>>)
  ELSE IF kind = "Pfam" THEN PayloadMatch("Pfam", acc, <<Loc(JInt(2), JInt(9))>>)
  ELSE IF kind = "PANTHER" THEN PayloadMatch("PANTHER", acc, <<Malformed>>)
  ELSE IF kind = "badloc"
    THEN PayloadMatch("PFAM", acc, <<Loc(JInt(2), JInt(9)), Malformed>>)
  ELSE Malformed

KindLists == UNION {[1..n -> MatchKinds] : n \in 0..MaxParseMatches}

\* The r-th result of a payload: an object with the matches of the kinds
\* given, numbered 10 * r + 1, 10 * r + 2, ..., or no object at all.
ResultOfKinds(r, kinds) ==
  IF kinds = <<"none">> THEN Malformed
  ELSE [tag |-> "dict",
        matches |-> [k \in 1..Len(kinds) |-> MatchOfKind(kinds[k], 10 * r + k)]]

PayloadOfKinds(rks) ==
  [tag |-> "dict",
   results |-> [r \in 1..Len(rks) |-> ResultOfKinds(r, rks[r])]]

\* The payloads whose matches are of the kinds ks, in one result or split
\* over two, with or without an element that is no object between the two.
SplitsOf(ks) ==
  {PayloadOfKinds(<<ks>>)}
  \cup {PayloadOfKinds(<<SubSeq(ks, 1, i), SubSeq(ks, i + 1, Len(ks))>>)
          : i \in 0..Len(ks)}
  \cup {PayloadOfKinds(<<SubSeq(ks, 1, i), <<"none">>, SubSeq(ks, i + 1, Len(ks))>>)
          : i \in 0..Len(ks)}

ParsePayloads ==
  UNION {SplitsOf(ks) : ks \in KindLists}
  \cup {PayloadOfKinds(<<>>)}
  \cup {PayloadOfKinds(<<[k \in 1..n |-> "PFAM"], <<"PANTHER">>, [k \in 1..m |-> "PFAM"]>>)
          : n \in 2..4, m \in 1..3}
  \cup {PayloadOfKinds(<<[k \in 1..7 |-> IF k = n THEN "other" ELSE "PFAM"]>>) : n \in 1..7}
  \cup RemotePayloads

InitParse ==
  /\ request = NoRequest
  /\ sequence = <<>>
  /\ pc = <<"parse", "call">>
  /\ stage = 0
  /\ attempt = 0
  /\ results = <<>>
  /\ response = NoResponse
  /\ job = NoJob
  /\ submits = [pfam |-> 0, ncbi |-> 0]
  /\ calls = <<"parse">>
  /\ rets = <<>>
  /\ pattern_index = 0
  /\ prosite_matches = <<>>
  /\ interpro_data \in ParsePayloads

\* parse_interpro_results(data) runs and returns its list.
ParseCall ==
  /\ pc = <<"parse", "call">>
  /\ rets' = Append(rets, [src |-> "parse",
                           value |-> parse_interpro_results(interpro_data)])
  /\ pc' = <<"parse", "return">>
  /\ UNCHANGED <<locals, request, sequence, stage, attempt, results,
                 response, job, submits, calls>>

NextParse == ParseCall

SpecParse == InitParse /\ [][NextParse]_vars

(***************************************************************************)
(* Properties                                                              *)
(***************************************************************************)
Done == pc = <<"api", "done">>

Returned(src) == \E i \in 1..Len(rets) : rets[i].src = src

ReturnOf(src) == rets[CHOOSE i \in 1..Len(rets) : rets[i].src = src].value

\* search_pfam_via_interpro has just returned.
PfamHasReturned == pc = <<"pfam", "return">>

InPfam == pc[1] = "pfam" /\ pc[2] # "return"

ValidRequest ==
  /\ request.json = "dict"
  /\ request.isList
  /\ LET seq == Upper(Strip(request.sequence))
     IN /\ IsAminoAcidSequence(seq)
        /\ Len(seq) >= 10
        /\ Len(seq) <= 2000

\* The number of steps search_pfam_via_interpro may still take when every
\* poll leaves the job running: two for each attempt left of the 36.
StepsLeft ==
  IF pc[2] = "submit" THEN 2 * 36 + 2
  ELSE IF pc[2] = "sleep" THEN 2 * (36 - attempt) + 1
  ELSE IF pc[2] = "poll" THEN 2 * (36 - attempt)
  ELSE 0

\* C1: with a status endpoint that always answers 200 RUNNING, a submitted
\* pfam job is polled at most 36 times, each poll after one more 5-unit
\* wait, the result endpoint is never requested, when the function has
\* returned it made exactly 36 polls and returned [], and every step it
\* takes brings that return nearer, so it does not wait forever.
C1_AlwaysRunningTimesOut ==
  /\ [](job.source = "pfam" =>
          /\ job.polls <= 36
          /\ ~job.retrieved
          /\ pc[2] \in {"submit", "sleep", "poll", "return"}
          /\ (pc = <<"pfam", "poll">> => job.waited = 5 * (job.polls + 1))
          /\ (PfamHasReturned /\ job.state # "NONE" =>
                /\ job.polls = 36
                /\ job.waited = 5 * 36
                /\ job.state = "TIMED_OUT"
                /\ ReturnOf("pfam") = <<>>))
  /\ [][InPfam => (pc'[1] = "pfam" /\ StepsLeft' < StepsLeft /\ StepsLeft' >= 0)]_vars

C1_Witness ==
  /\ PfamHasReturned
  /\ job.state = "TIMED_OUT"
  /\ job.polls = 36
  /\ ReturnOf("pfam") = <<>>

\* C2: for a valid request, whatever happened to the pfam source, the
\* response is the 200 mapping, its prosite list is what
\* search_prosite_via_uniprot gives for the sequence and its ncbi list is
\* what search_ncbi_cdd returned.
C2_PfamFailureIsIsolated ==
  /\ (pc = <<"api", "except">> => ~ValidRequest)
  /\ (Done /\ ValidRequest =>
        /\ response.status = 200
        /\ (Requested("prosite") =>
              /\ "prosite" \in Keys(response.body)
              /\ Get(response.body, "prosite")
                   = search_prosite_via_uniprot(Upper(Strip(request.sequence))))
        /\ (Requested("ncbi") =>
              /\ "ncbi" \in Keys(response.body)
              /\ Get(response.body, "ncbi") = ReturnOf("ncbi")))

C2_Witness ==
  /\ Done
  /\ response.status = 200
  /\ Keys(response.body) = {"prosite", "pfam", "ncbi"}
  /\ Get(response.body, "pfam") = <<>>
  /\ Get(response.body, "prosite") # <<>>
  /\ Get(response.body, "ncbi") # <<>>

\* C3: no exception leaves search_pfam_via_interpro, and a list it returns
\* is empty unless the last thing it did was a successful retrieval after
\* a poll that reported FINISHED.
C3_PfamNeverRaises ==
  /\ (pc = <<"api", "except">> => job.source # "pfam")
  /\ (PfamHasReturned /\ ReturnOf("pfam") # <<>> =>
        job.retrieved /\ job.state = "FINISHED")
  /\ (PfamHasReturned => Returned("pfam"))

C3_Witness ==
  /\ PfamHasReturned
  /\ job.retrieveFailed
  /\ job.state = "FINISHED"
  /\ ReturnOf("pfam") = <<>>

SpanValid(start, end, L) == 1 <= start /\ start <= end /\ end <= L

JsonSpanValid(pos, L) ==
  /\ pos.start.t = "int"
  /\ pos.end.t = "int"
  /\ SpanValid(pos.start.v, pos.end.v, L)

SpansValid(key, list, L) ==
  \A i \in 1..Len(list) : \A k \in 1..Len(list[i].positions) :
    LET pos == list[i].positions[k]
    IN IF key = "pfam" THEN JsonSpanValid(pos, L)
       ELSE SpanValid(pos.start, pos.end, L)

\* C4: every span of every Match of every source lies within the sequence:
\* 1 <= start <= end <= len(sequence).
C4_SpansWithinSequence ==
  \A i \in 1..Len(results) :
    SpansValid(results[i].key, results[i].value, Len(sequence))

\* C5: each list in the result mapping has at most 5 entries.
C5_AtMostFive ==
  /\ \A i \in 1..Len(results) : Len(results[i].value) <= 5
  /\ \A i \in 1..Len(response.body) : Len(response.body[i].value) <= 5

C5_Witness ==
  /\ Done
  /\ Keys(response.body) = {"prosite", "pfam", "ncbi"}
  /\ \A i \in 1..Len(response.body) : Len(response.body[i].value) = 5

\* C6: once a status poll has reported FINISHED or FAILED/ERROR, the pfam
\* job stays in that state and no further status poll is made for it.
C6_TerminalIsFinal ==
  [][(job.source = "pfam" /\ job.state \in {"FINISHED", "FAILED"}
        /\ job'.source = "pfam")
       => (job'.polls = job.polls /\ job'.state = job.state)]_vars

\* C7: the result endpoint is requested only after a poll reported
\* FINISHED, and once a retrieval has failed the function returns no
\* matches.
C7_FailedRetrievalGivesNothing ==
  /\ (pc = <<"pfam", "retrieve">> => job.state = "FINISHED")
  /\ (PfamHasReturned /\ job.retrieveFailed => ReturnOf("pfam") = <<>>)

\* C8: within one request each of pfam and ncbi submits at most one job.
C8_OneSubmission ==
  /\ submits.pfam <= 1
  /\ submits.ncbi <= 1
  /\ (pc[1] = "api" => submits.pfam = Len(SelectSeq(calls, LAMBDA c : c = "pfam")))
  /\ (pc[1] = "api" => submits.ncbi = Len(SelectSeq(calls, LAMBDA c : c = "ncbi")))

C8_Witness ==
  /\ pc = <<"ncbi", "return">>
  /\ submits.pfam = 1
  /\ submits.ncbi = 1
  /\ job.polls = 36
  /\ "pfam" \in Keys(results)
  /\ Get(results, "pfam") = <<>>

KnownRequested == {n \in {"prosite", "pfam", "ncbi"} : Requested(n)}

\* C9: for a valid request the keys of the returned mapping are exactly the
\* requested names among prosite, pfam, ncbi, only requested producers are
\* ever invoked, and each of them is invoked.
C9_KeysAreRequestedSources ==
  /\ \A i \in 1..Len(calls) : calls[i] \in KnownRequested
  /\ Keys(results) \subseteq KnownRequested
  /\ (Done /\ ValidRequest =>
        /\ response.status = 200
        /\ Keys(response.body) = KnownRequested
        /\ {calls[i] : i \in 1..Len(calls)} = KnownRequested)

C9_Witness ==
  /\ Done
  /\ response.status = 200
  /\ Requested("smart")
  /\ Requested("pfam")
  /\ ~Requested("prosite")
  /\ Keys(response.body) = {"pfam", "ncbi"}
  /\ Get(response.body, "pfam") = <<>>
  /\ Get(response.body, "ncbi") = <<>>

Rank(name) == IF name = "prosite" THEN 1 ELSE IF name = "pfam" THEN 2 ELSE 3

\* C10: the producers are invoked in the order prosite, pfam, ncbi whatever
\* the order of the request; prosite has returned before the pfam job is
\* submitted and pfam has returned before the ncbi job is submitted.
C10_CanonicalOrder ==
  /\ \A i, j \in 1..Len(calls) : i < j => Rank(calls[i]) < Rank(calls[j])
  /\ (job.source = "pfam" /\ Requested("prosite") => Returned("prosite"))
  /\ (job.source = "ncbi" /\ Requested("prosite") => Returned("prosite"))
  /\ (job.source = "ncbi" /\ Requested("pfam") => Returned("pfam"))

C10_Witness ==
  /\ Done
  /\ request.databases = <<"ncbi", "pfam", "prosite">>
  /\ calls = <<"prosite", "pfam", "ncbi">>
  /\ submits.pfam = 1
  /\ submits.ncbi = 1

KeyOrder(d) == [i \in 1..Len(d) |-> d[i].key]

RequestOrder ==
  SelectSeq(request.databases, LAMBDA n : n \in {"prosite", "pfam", "ncbi"})

\* C11: the keys of the mapping built by search_databases are inserted in
\* the order in which the request named the sources.
C11_KeysInRequestOrder ==
  /\ \E n \in 0..Len(RequestOrder) : KeyOrder(results) = SubSeq(RequestOrder, 1, n)
  /\ (Done /\ response.status = 200 => KeyOrder(response.body) = RequestOrder)

HitsOf(id, list) == SelectSeq(list, LAMBDA m : m.id = id)

ScanDone == pc[1] = "prosite" /\ pattern_index = Len(patterns)

AASTVRKAA == <<"A","A","S","T","V","R","K","A","A">>

\* C12 as stated: scanning "AASTVRKAA" records exactly one PS00005 hit and
\* its span is start = 3, end = 5.
C12_SpanThreeToFive ==
  ScanDone /\ sequence = AASTVRKAA =>
    HitsOf("PS00005", prosite_matches)
      = <<[id |-> "PS00005", positions |-> <<[start |-> 3, end |-> 5]>>]>>

\* C12 amended: scanning "AASTVRKAA" records exactly one PS00005 hit, its
\* span is start = 4, end = 6, and the residues 4..6 of the sequence are
\* the window "TVR"; the returned list holds that hit.
C12_SpanFourToSix ==
  ScanDone /\ sequence = AASTVRKAA =>
    /\ HitsOf("PS00005", prosite_matches)
         = <<[id |-> "PS00005", positions |-> <<[start |-> 4, end |-> 6]>>]>>
    /\ SubSeq(sequence, 4, 6) = <<"T", "V", "R">>
    /\ (pc = <<"prosite", "return">> =>
          HitsOf("PS00005", rets[Len(rets)].value)
            = <<[id |-> "PS00005", positions |-> <<[start |-> 4, end |-> 6]>>]>>)

C12_Witness ==
  /\ pc = <<"prosite", "return">>
  /\ sequence = AASTVRKAA
  /\ Len(HitsOf("PS00005", rets[Len(rets)].value)) = 1

\* The characters of s from offset p up to offset e (0-based, e excluded)
\* are an occurrence of regex[i..]: some split of them among the tokens.
RECURSIVE Accepts(_, _, _, _, _)
Accepts(regex, i, s, p, e) ==
  IF i > Len(regex) THEN p = e
  ELSE \E n \in regex[i].min..regex[i].max :
         /\ p + n <= e
         /\ \A k \in 1..n : TokenMatches(regex[i], s[p + k])
         /\ Accepts(regex, i + 1, s, p + n, e)

OccursAt(regex, s, q) == \E e \in q..Len(s) : Accepts(regex, 1, s, q, e)

Span(m) == m.positions[1]

\* hs are the leftmost-first non-overlapping occurrences of regex in s,
\* each reported as start = 1 + offset, end = offset + length.
LeftmostDisjoint(regex, s, hs) ==
  /\ \A k \in 1..Len(hs) :
       LET from == IF k = 1 THEN 0 ELSE Span(hs[k - 1]).end
           offset == Span(hs[k]).start - 1
       IN /\ Len(hs[k].positions) = 1
          /\ from <= offset
          /\ offset < Span(hs[k]).end
          /\ Accepts(regex, 1, s, offset, Span(hs[k]).end)
          /\ \A q \in from..(offset - 1) : ~OccursAt(regex, s, q)
  /\ LET last == IF hs = <<>> THEN 0 ELSE Span(hs[Len(hs)]).end
     IN \A q \in last..Len(s) : ~OccursAt(regex, s, q)

\* C13: for every sequence and every pattern already scanned, the spans
\* recorded for that pattern are its leftmost-first non-overlapping
\* occurrences: each hit is the leftmost occurrence starting at or after
\* the end of the previous hit, spans of one id are disjoint and ascending,
\* and a span is start = 1 + offset, end = offset + length.
C13_LeftmostNonOverlapping ==
  pc[1] = "prosite" =>
    \A i \in 1..pattern_index :
      LeftmostDisjoint(patterns[i].regex, sequence,
                       HitsOf(patterns[i].id, prosite_matches))

Overlap(a, b) == a.start <= b.end /\ b.start <= a.end

\* One pattern has two hits, an occurrence of it that starts inside a hit
\* was passed over, and hits of two different patterns overlap.
C13_Witness ==
  /\ ScanDone
  /\ \E i \in 1..Len(patterns) :
       LET hs == HitsOf(patterns[i].id, prosite_matches)
       IN /\ Len(hs) >= 2
          /\ \E q \in Span(hs[1]).start..(Span(hs[1]).end - 1) :
               OccursAt(patterns[i].regex, sequence, q)
  /\ \E a, b \in 1..Len(prosite_matches) :
       /\ prosite_matches[a].id # prosite_matches[b].id
       /\ Overlap(Span(prosite_matches[a]), Span(prosite_matches[b]))

PatternRank(id) == CHOOSE i \in 1..Len(patterns) : patterns[i].id = id

\* list is in pattern-then-position order: ids in the order of the table,
\* hits of one id by ascending start.
LibraryOrdered(list) ==
  \A a, b \in 1..Len(list) : a < b =>
    \/ PatternRank(list[a].id) < PatternRank(list[b].id)
    \/ /\ list[a].id = list[b].id
       /\ Span(list[a]).start < Span(list[b]).start

\* C14: the list search_prosite_via_uniprot fills is the hits of each
\* pattern in table order (PS00008, PS00142, PS00017, PS00006, PS00005),
\* each pattern's hits by ascending position and all of them, and the list
\* it returns is exactly the first 5 of it, so that later patterns
\* contribute nothing once earlier ones gave 5.
C14_FirstFiveInLibraryOrder ==
  pc[1] = "prosite" =>
    /\ [i \in 1..Len(patterns) |-> patterns[i].id]
         = <<"PS00008", "PS00142", "PS00017", "PS00006", "PS00005">>
    /\ \A a \in 1..Len(prosite_matches) :
         PatternRank(prosite_matches[a].id) <= pattern_index
    /\ LibraryOrdered(prosite_matches)
    /\ (ScanDone =>
          \A i \in 1..Len(patterns) :
            LeftmostDisjoint(patterns[i].regex, sequence,
                             HitsOf(patterns[i].id, prosite_matches)))
    /\ (pc = <<"prosite", "return">> =>
          LET list == rets[Len(rets)].value
              n == IF Len(prosite_matches) < 5 THEN Len(prosite_matches) ELSE 5
          IN /\ Len(list) = n
             /\ \A k \in 1..n : list[k] = prosite_matches[k])

\* Five PS00006 hits fill the returned list and the PS00005 hit that was
\* found after them is not in it.
C14_Witness ==
  /\ pc = <<"prosite", "return">>
  /\ Len(HitsOf("PS00006", rets[Len(rets)].value)) = 5
  /\ HitsOf("PS00005", prosite_matches) # <<>>
  /\ HitsOf("PS00005", rets[Len(rets)].value) = <<>>

\* The number of steps search_pfam_via_interpro may still take: three for
\* each attempt left of the 36 (the wait, the status request, the result
\* request).
PfamStepsLeft ==
  IF pc[2] = "submit" THEN 3 * 36 + 2
  ELSE IF pc[2] = "sleep" THEN 3 * (36 - attempt)
  ELSE IF pc[2] = "poll" THEN 3 * (36 - attempt) - 1
  ELSE IF pc[2] = "retrieve" THEN 3 * (36 - attempt) - 2
  ELSE 0

\* C15: whatever the status endpoint answers and whichever requests fail,
\* search_pfam_via_interpro makes at most 36 status requests, one in each
\* attempt and each after its own wait; every step brings its return
\* nearer; a status request that does not lead to the result request or to
\* the return is followed by the wait of the next attempt, with one attempt
\* used, no new submission and no request in between; and it returns
\* straight from a status request only on FAILED/ERROR or after the 36th.
C15_AtMost36Polls ==
  /\ [](job.source = "pfam" =>
          /\ job.polls <= 36
          /\ submits.pfam <= 1
          /\ (pc[2] \in {"sleep", "poll"} => job.polls = attempt /\ attempt < 36)
          /\ (pc[2] = "retrieve" => job.polls = attempt + 1)
          /\ (pc[2] = "poll" => job.waited = 5 * (job.polls + 1)))
  /\ [][InPfam =>
          /\ pc'[1] = "pfam"
          /\ PfamStepsLeft' < PfamStepsLeft
          /\ PfamStepsLeft' >= 0]_vars
  /\ [][pc = <<"pfam", "poll">> =>
          /\ job'.polls = job.polls + 1
          /\ submits' = submits
          /\ pc'[2] \in {"sleep", "retrieve", "return"}
          /\ (pc'[2] = "sleep" => attempt' = attempt + 1)
          /\ (pc'[2] = "return" => job'.state = "FAILED" \/ job'.polls = 36)
          /\ (job'.state = "SUBMITTED" => pc'[2] = "sleep")]_vars

\* The 36th status request is about to be made after 35 that failed or
\* answered a status other than 200.
C15_Witness ==
  /\ pc = <<"pfam", "poll">>
  /\ job.state = "SUBMITTED"
  /\ job.polls = 35
  /\ attempt = 35
  /\ submits.pfam = 1

\* C16: while the submission of search_pfam_via_interpro has not been
\* answered 200, the function has not waited, has made no status request
\* and no result request; after a submission that was rejected or raised,
\* the next thing it does is return, and it returns the empty list.
C16_RejectedSubmissionNeverPolls ==
  /\ (pc = <<"api", "except">> => job.source # "pfam")
  /\ (job.source = "pfam" /\ ~job.accepted =>
        /\ job.polls = 0
        /\ job.waited = 0
        /\ ~job.retrieved
        /\ job.state = "NONE"
        /\ pc \in {<<"pfam", "submit">>, <<"pfam", "return">>}
        /\ (PfamHasReturned => rets[Len(rets)] = [src |-> "pfam", value |-> <<>>]))

C16_Witness ==
  /\ PfamHasReturned
  /\ submits.pfam = 1
  /\ ~job.accepted
  /\ job.polls = 0
  /\ job.waited = 0
  /\ rets[Len(rets)] = [src |-> "pfam", value |-> <<>>]

InNcbi == pc[1] = "ncbi" /\ pc[2] # "return"

NcbiHasReturned == pc = <<"ncbi", "return">>

\* C17: search_ncbi_cdd makes a request for the result page only after a
\* submission answered 200 with a CDSID, at most 36 of them, one in each
\* attempt and each after its own 5-unit wait; when no request yielded a
\* ready page it returns the empty list, after 36 requests if the job was
\* accepted; no exception leaves it and every step brings its return
\* nearer.
C17_CddTimeoutContract ==
  /\ [](pc = <<"api", "except">> => job.source # "ncbi")
  /\ [](job.source = "ncbi" =>
          /\ job.polls <= 36
          /\ submits.ncbi <= 1
          /\ pc[2] \in {"submit", "sleep", "poll", "return"}
          /\ (~job.accepted =>
                /\ job.polls = 0
                /\ job.waited = 0
                /\ pc[2] \in {"submit", "return"})
          /\ (pc[2] = "sleep" => job.polls = attempt /\ job.waited = 5 * attempt)
          /\ (pc[2] = "poll" =>
                /\ job.polls = attempt
                /\ attempt < 36
                /\ job.waited = 5 * (attempt + 1))
          /\ (NcbiHasReturned /\ ~job.retrieved =>
                /\ rets[Len(rets)] = [src |-> "ncbi", value |-> <<>>]
                /\ (job.accepted =>
                      /\ job.polls = 36
                      /\ job.waited = 5 * 36
                      /\ job.state = "TIMED_OUT")))
  /\ [][InNcbi =>
          /\ pc'[1] = "ncbi"
          /\ StepsLeft' < StepsLeft
          /\ StepsLeft' >= 0]_vars

C17_Witness ==
  /\ NcbiHasReturned
  /\ job.accepted
  /\ ~job.retrieved
  /\ job.polls = 36
  /\ job.waited = 180
  /\ rets[Len(rets)] = [src |-> "ncbi", value |-> <<>>]

ParseReturned == pc = <<"parse", "return">>

\* Every element the loops of parse_interpro_results would visit is a JSON
\* object.
WellFormed(d) ==
  /\ d.tag = "dict"
  /\ \A r \in 1..Len(d.results) :
       /\ d.results[r].tag = "dict"
       /\ \A k \in 1..Len(d.results[r].matches) :
            LET m == d.results[r].matches[k]
            IN /\ m.tag = "dict"
               /\ (m.library = "PFAM" =>
                     \A j \in 1..Len(m.locations) : m.locations[j].tag = "dict")

\* The places <<result, match>> of the payload, and payload order on them.
Places(d) ==
  UNION {{<<r, k>> : k \in 1..Len(d.results[r].matches)}
         : r \in {x \in 1..Len(d.results) : d.results[x].tag = "dict"}}

Before(p, q) == p[1] < q[1] \/ (p[1] = q[1] /\ p[2] < q[2])

At(d, q) == d.results[q[1]].matches[q[2]]

\* The Match out carries the accession of payload match m and the start
\* and end of every location of m, in order.
Carries(out, m) ==
  /\ out.id = m.accession
  /\ Len(out.positions) = Len(m.locations)
  /\ \A j \in 1..Len(m.locations) :
       /\ out.positions[j].start = m.locations[j].start
       /\ out.positions[j].end = m.locations[j].end

\* list is the first 5 (or all, if fewer) of the payload matches at the
\* places P, in payload order, one Match for each.
FirstFiveOf(list, d, P) ==
  /\ Len(list) = IF Cardinality(P) < 5 THEN Cardinality(P) ELSE 5
  /\ \A i \in 1..Len(list) :
       \E q \in P :
         /\ Cardinality({x \in P : Before(x, q)}) = i - 1
         /\ Carries(list[i], At(d, q))

PfamPlaces(d) ==
  {q \in Places(d) : At(d, q).tag = "dict" /\ At(d, q).library = "PFAM"}

\* C18: on a payload all of whose elements are objects,
\* parse_interpro_results returns one Match for each match whose library
\* is exactly PFAM and none for another library, in payload order (results,
\* then the matches of a result), each with the start and end of every
\* location of its match, cut to the first 5.
C18_OneMatchPerPfamSignature ==
  ParseReturned /\ WellFormed(interpro_data) =>
    FirstFiveOf(rets[Len(rets)].value, interpro_data, PfamPlaces(interpro_data))

\* Seven PFAM matches in two results with a PANTHER match between them:
\* five are returned.
C18_Witness ==
  /\ ParseReturned
  /\ WellFormed(interpro_data)
  /\ Len(interpro_data.results) >= 2
  /\ Cardinality(PfamPlaces(interpro_data)) = 7
  /\ Cardinality(Places(interpro_data)) = 8
  /\ Len(rets[Len(rets)].value) = 5

\* The places where the loops of parse_interpro_results meet an element
\* that is no object: a result (place <<r, 0>>), a match, or a location of
\* a PFAM match.
BadPlaces(d) ==
  {<<r, 0>> : r \in {x \in 1..Len(d.results) : d.results[x].tag # "dict"}}
  \cup {q \in Places(d) :
          \/ At(d, q).tag # "dict"
          \/ /\ At(d, q).library = "PFAM"
             /\ \E j \in 1..Len(At(d, q).locations) :
                  At(d, q).locations[j].tag # "dict"}

FirstBad(d) == CHOOSE e \in BadPlaces(d) : \A x \in BadPlaces(d) : ~Before(x, e)

PfamBefore(d, e) == {q \in PfamPlaces(d) : Before(q, e)}

\* C19: on a payload with a malformed element parse_interpro_results
\* returns a list, the first 5 (or all) of the Matches of the PFAM matches
\* that precede the first malformed element in payload order; it is empty
\* when nothing precedes it or the payload itself is no object.
C19_PartialParseIsKept ==
  ParseReturned /\ ~WellFormed(interpro_data) =>
    IF interpro_data.tag # "dict" THEN rets[Len(rets)].value = <<>>
    ELSE /\ BadPlaces(interpro_data) # {}
         /\ FirstFiveOf(rets[Len(rets)].value, interpro_data,
                        PfamBefore(interpro_data, FirstBad(interpro_data)))
         /\ (\A q \in Places(interpro_data) :
               ~Before(q, FirstBad(interpro_data)))
              => rets[Len(rets)].value = <<>>

\* Matches were extracted before the malformed element, PFAM matches
\* follow it, and what is returned is the ones before it.
C19_Witness ==
  /\ ParseReturned
  /\ interpro_data.tag = "dict"
  /\ ~WellFormed(interpro_data)
  /\ rets[Len(rets)].value # <<>>
  /\ \E q \in PfamPlaces(interpro_data) : Before(FirstBad(interpro_data), q)
  /\ Len(rets[Len(rets)].value)
       = Cardinality(PfamBefore(interpro_data, FirstBad(interpro_data)))

\* The sequence of the request, stripped and upper-cased, violates a
\* precondition: it is empty, holds a character outside
\* ACDEFGHIKLMNPQRSTVWY, or is shorter than 10 or longer than 2000.
ViolatesPrecondition ==
  LET seq == Upper(Strip(request.sequence))
  IN \/ seq = <<>>
     \/ \E i \in 1..Len(seq) : seq[i] \notin AminoAcids
     \/ Len(seq) < 10
     \/ Len(seq) > 2000

NothingInvoked ==
  /\ calls = <<>>
  /\ rets = <<>>
  /\ results = <<>>
  /\ submits = [pfam |-> 0, ncbi |-> 0]
  /\ job = NoJob

\* C20: when the sequence of the request violates a precondition the
\* response is a 400 error and no producer was invoked and no job
\* submitted; a producer is invoked only for a sequence that passed all
\* four checks.
C20_InvalidSequenceInvokesNothing ==
  /\ (response.status = 400 => NothingInvoked /\ response.error # "")
  /\ (~NothingInvoked => request.json = "dict" /\ ~ViolatesPrecondition)
  /\ (Done /\ request.json = "dict" /\ ViolatesPrecondition =>
        response.status = 400 /\ NothingInvoked)

\* A nine-residue sequence with all three sources requested is answered
\* 400 "Sequence too short".
C20_Witness ==
  /\ Done
  /\ response = ErrorResponse(400, "Sequence too short")
  /\ Requested("prosite")
  /\ Requested("pfam")
  /\ Requested("ncbi")
  /\ NothingInvoked

\* C21: when every status answer is something other than a 200 carrying
\* FINISHED, FAILED or ERROR (another token, or another HTTP status), the
\* pfam job is never terminal and its result is never requested; every
\* status request but the 36th is followed by the wait of the next
\* attempt, and the function returns only after the 36th, timed out, with
\* the empty list.
C21_UnrecognisedIsStillRunning ==
  /\ [](job.source = "pfam" /\ job.accepted =>
          /\ job.state \in {"SUBMITTED", "RUNNING", "TIMED_OUT"}
          /\ ~job.retrieved
          /\ pc[2] \in {"sleep", "poll", "return"}
          /\ (job.state = "TIMED_OUT" <=> PfamHasReturned)
          /\ (PfamHasReturned =>
                /\ job.polls = 36
                /\ rets[Len(rets)] = [src |-> "pfam", value |-> <<>>]))
  /\ [][pc = <<"pfam", "poll">> =>
          IF job.polls < 35
            THEN /\ pc' = <<"pfam", "sleep">>
                 /\ attempt' = attempt + 1
                 /\ job'.state \in {"SUBMITTED", "RUNNING"}
            ELSE /\ pc' = <<"pfam", "return">>
                 /\ job'.state = "TIMED_OUT"]_vars

\* The function has returned after 36 status requests of which none was
\* answered with a token it knows.
C21_Witness ==
  /\ PfamHasReturned
  /\ job.accepted
  /\ job.state = "TIMED_OUT"
  /\ job.polls = 36
  /\ job.waited = 180
  /\ rets[Len(rets)] = [src |-> "pfam", value |-> <<>>]

====
